---- MODULE Spec2Model ----
(***************************************************************************)
(* Fuzzy irrigation controller (fuzzy.py): the Mamdani rule base built at  *)
(* module load, the shared ControlSystemSimulation irrigation_sim, and the *)
(* GUI handler IrrigationApp.run_simulation that drives it.                *)
(*                                                                         *)
(* Numbers are exact fixed-point rationals.  A membership degree d is the  *)
(* integer d * One; a point x of an (upsampled) universe is the integer    *)
(* x * Sub.  Every division goes through ExactDiv, which has no value when *)
(* the quotient is not exact, so the fixed-point grid never rounds.        *)
(* Floating-point rounding of the interpreter is not modelled.             *)
(***************************************************************************)
EXTENDS Integers, Sequences, FiniteSets, TLC

VARIABLES
    \* one evaluation of the engine, stage by stage (compute())
    ev_in, ev_pc, ev_deg, ev_fire, ev_cut, ev_out,
    \* IrrigationApp fields and the module-level irrigation_sim
    water_supply_input_value, result_label, canvas_marker,
    sim_input, sim_output, sim_cache,
    \* history of run_simulation calls (not program state)
    last, remembered, last_success,
    \* two evaluations interleaved on irrigation_sim
    c_pc, c_in, c_res, c_overlap

evalVars == <<ev_in, ev_pc, ev_deg, ev_fire, ev_cut, ev_out>>
appVars == <<water_supply_input_value, result_label, canvas_marker>>
simVars == <<sim_input, sim_output, sim_cache>>
histVars == <<last, remembered, last_success>>
concVars == <<c_pc, c_in, c_res, c_overlap>>
vars == <<evalVars, appVars, simVars, histVars, concVars>>

\* Python's None; a present integer v is held as Some(v)
None == <<>>
Some(v) == <<v>>
The(o) == o[1]

\* fixed point: One is the degree 1.0, Sub the sub-steps per universe step
One == 100 * 12
Sub == 2 * 2

Min(a, b) == IF a <= b THEN a ELSE b
Max(a, b) == IF a >= b THEN a ELSE b

ExactDiv(n, d) == CHOOSE q \in {n \div d} : q * d = n

RECURSIVE Gcd(_, _)
Gcd(a, b) == IF b = 0 THEN a ELSE Gcd(b, a % b)

\* a non-negative rational in lowest terms, <<numerator, denominator>>
Ratio(n, d) == LET g == Gcd(n, d) IN <<n \div g, d \div g>>

RatLe(k, r) == k * r[2] <= r[1]
RatGe(k, r) == k * r[2] >= r[1]

\* the stored inputs of a simulation that has none
NoInputs == [soil_moisture |-> None, temperature |-> None, weather |-> None]

\* the text of result_label, with the value it shows in hundredths
Label(text, h) == [text |-> text, hundredths |-> h]
ErrorLabel == Label("Error during simulation.", 0)

\* the record kept of one run_simulation call
Call(kind, dialog, computed, in, outcome, kept, invalid, repeat, prev) ==
    [kind |-> kind, dialog |-> dialog, computed |-> computed, in |-> in,
     outcome |-> outcome, inputs_kept |-> kept, raw_invalid |-> invalid,
     repeat |-> repeat, prev |-> prev]

NoCall == Call("none", "none", FALSE, None, [kind |-> "none"], TRUE, FALSE, FALSE, "none")

(***************************************************************************)
(* Universes and triangular membership functions (lines 31-53)             *)
(***************************************************************************)
soil_moisture_universe == 0 .. 100
temperature_universe == 0 .. 40
weather_universe == 0 .. 2
water_supply_universe == 0 .. 60

\* fuzz.trimf sampled on universe U; the breakpoints are given in halves
\* (abc2 = 2 * [a, b, c]) so that weather's 0.5 and 1.5 are integers
trimf2(U, abc2) ==
    LET a == abc2[1]
        b == abc2[2]
        c == abc2[3]
    IN [x \in U |->
          IF 2 * x = b THEN One
          ELSE IF a # b /\ a < 2 * x /\ 2 * x < b
               THEN ExactDiv((2 * x - a) * One, b - a)
          ELSE IF b # c /\ b < 2 * x /\ 2 * x < c
               THEN ExactDiv((c - 2 * x) * One, c - b)
          ELSE 0]

trimf(U, abc) == trimf2(U, <<2 * abc[1], 2 * abc[2], 2 * abc[3]>>)

soil_moisture ==
    [dry |-> trimf(soil_moisture_universe, <<0, 0, 50>>),
     moderate |-> trimf(soil_moisture_universe, <<30, 50, 70>>),
     wet |-> trimf(soil_moisture_universe, <<50, 100, 100>>)]

temperature ==
    [low |-> trimf(temperature_universe, <<0, 0, 20>>),
     medium |-> trimf(temperature_universe, <<15, 25, 35>>),
     high |-> trimf(temperature_universe, <<30, 40, 40>>)]

weather ==
    [rainy |-> trimf(weather_universe, <<0, 0, 1>>),
     cloudy |-> trimf2(weather_universe, <<1, 2, 3>>),
     sunny |-> trimf2(weather_universe, <<3, 4, 4>>)]

water_supply ==
    [none |-> trimf(water_supply_universe, <<0, 0, 15>>),
     low |-> trimf(water_supply_universe, <<10, 20, 30>>),
     moderate |-> trimf(water_supply_universe, <<25, 40, 50>>),
     high |-> trimf(water_supply_universe, <<40, 60, 60>>)]

OutTerms == DOMAIN water_supply

antecedents ==
    [soil_moisture |-> soil_moisture, temperature |-> temperature,
     weather |-> weather]

(***************************************************************************)
(* The rule base (lines 57-73): antecedent terms joined by &, one          *)
(* consequent term each, weight 1                                          *)
(***************************************************************************)
S(t) == <<"soil_moisture", t>>
T(t) == <<"temperature", t>>
W(t) == <<"weather", t>>

Rule(ante, cons) == [antecedent |-> ante, consequent |-> cons]

rule1 == Rule(<<S("dry"), T("high"), W("sunny")>>, "high")
rule2 == Rule(<<S("wet"), W("rainy")>>, "none")
rule3 == Rule(<<S("moderate"), W("cloudy")>>, "low")

\* faulty variant: rule4 given the consequent of rule1
rule4_high == Rule(<<S("moderate"), T("medium"), W("sunny")>>, "high")

rule4 == Rule(<<S("moderate"), T("medium"), W("sunny")>>, "moderate")
rule5 == Rule(<<S("dry"), T("high")>>, "high")
rule6 == Rule(<<S("dry"), W("sunny")>>, "moderate")
rule7 == Rule(<<S("wet"), T("low")>>, "none")
rule8 == Rule(<<S("wet"), W("cloudy")>>, "low")
rule9 == Rule(<<S("moderate"), T("high")>>, "moderate")
rule10 == Rule(<<S("dry"), T("medium"), W("rainy")>>, "low")
rule11 == Rule(<<S("wet"), T("high"), W("sunny")>>, "moderate")
rule12 == Rule(<<S("moderate"), T("high"), W("rainy")>>, "high")
rule13 == Rule(<<S("moderate"), T("low"), W("sunny")>>, "low")

\* irrigation_ctrl: the rules of the control system
rules ==
    << rule1, rule2, rule3, rule4, rule5, rule6, rule7, rule8, rule9, rule10,
       rule11, rule12, rule13 >>

RuleIds == 1 .. Len(rules)

(***************************************************************************)
(* ControlSystemSimulation.compute() (line 191), step by step              *)
(***************************************************************************)
\* fuzz.interp_membership: linear interpolation of the sampled mf at the
\* point x (in units of 1/Sub) of its universe
interp_membership(mf, x) ==
    LET i == x \div Sub
        r == x % Sub
    IN IF r = 0 THEN mf[i]
       ELSE mf[i] + ExactDiv(r * (mf[i + 1] - mf[i]), Sub)

\* fuzzification of the three crisp inputs against every antecedent term
Fuzzify(in) ==
    [v \in DOMAIN antecedents |->
        [t \in DOMAIN antecedents[v] |->
            interp_membership(antecedents[v][t], Sub * in[v])]]

\* faulty variant: the terms joined by | (maximum) instead of &
FuzzyOr(a, b) == Max(a, b)

\* the & of two antecedent terms
FuzzyAnd(a, b) == Min(a, b)

RECURSIVE AndFold(_, _, _)
AndFold(deg, ante, n) ==
    LET leaf == deg[ante[n][1]][ante[n][2]]
    IN IF n = 1 THEN leaf ELSE FuzzyAnd(AndFold(deg, ante, n - 1), leaf)

\* firing strength of rule i (rule weight 1)
Firing(deg, i) == AndFold(deg, rules[i].antecedent, Len(rules[i].antecedent))

FireAll(deg) == [i \in RuleIds |-> Firing(deg, i)]

\* faulty variant: accumulation by np.fmin
AccumulateMin(a, b) == Min(a, b)

\* accumulation_method of the consequent: np.fmax
Accumulate(a, b) == Max(a, b)

RECURSIVE CutUpTo(_, _, _)
CutUpTo(fire, term, n) ==
    IF n = 0 THEN None
    ELSE LET prev == CutUpTo(fire, term, n - 1)
         IN IF rules[n].consequent # term THEN prev
            ELSE IF prev = None THEN Some(fire[n])
            ELSE Some(Accumulate(fire[n], The(prev)))

\* membership value of every consequent term after all rules are computed
Cuts(fire) == [t \in OutTerms |-> CutUpTo(fire, t, Len(rules))]

\* _interp_universe_fast: the points where the sampled mf crosses level y
interp_universe_fast(mf, y) ==
    LET above(i) == IF y = 0 THEN mf[i] > y ELSE mf[i] >= y
        idx == {i \in DOMAIN mf : (i + 1) \in DOMAIN mf /\ above(i) # above(i + 1)}
    IN {Sub * i + ExactDiv(Sub * (y - mf[i]), mf[i + 1] - mf[i]) : i \in idx}

\* find_memberships: the upsampled universe
new_universe(cut) ==
    {Sub * x : x \in water_supply_universe} \cup
    UNION {interp_universe_fast(water_supply[t], The(cut[t])) :
              t \in {u \in OutTerms : cut[u] # None}}

RECURSIVE MaxOver(_, _)
MaxOver(f, D) ==
    IF D = {} THEN 0
    ELSE LET t == CHOOSE u \in D : TRUE
         IN Max(f[t], MaxOver(f, D \ {t}))

\* find_memberships: the aggregated output set, each term clipped at its
\* cut (np.minimum) and the clipped terms joined by np.maximum
output_mf(cut) ==
    LET used == {u \in OutTerms : cut[u] # None}
    IN [x \in new_universe(cut) |->
          MaxOver([t \in used |->
                     Min(The(cut[t]), interp_membership(water_supply[t], x))], used)]

RECURSIVE SortSet(_)
SortSet(X) ==
    IF X = {} THEN <<>>
    ELSE LET m == CHOOSE x \in X : \A y \in X : x <= y
         IN <<m>> \o SortSet(X \ {m})

RECURSIVE SumMf(_, _)
SumMf(mf, D) ==
    IF D = {} THEN 0
    ELSE LET x == CHOOSE u \in D : TRUE
         IN mf[x] + SumMf(mf, D \ {x})

\* faulty variant: the moment taken from the segment's own left end, x1 forgotten
SegMomentNoOffset(x1, x2, y1, y2) == (x2 - x1) * ((x2 - x1) * (2 * y2 + y1))

\* centroid(): per segment of the universe, 6 * moment * area.  The four
\* cases of the library (rectangle, the two triangles, trapezoid) are this
\* one expression in exact arithmetic; a zero segment contributes 0.
SegMoment6(x1, x2, y1, y2) ==
    (x2 - x1) * ((x2 - x1) * (2 * y2 + y1) + 3 * x1 * (y1 + y2))

\* 2 * area of the segment
SegArea2(x1, x2, y1, y2) == (x2 - x1) * (y1 + y2)

RECURSIVE SumMoment6(_, _, _)
SumMoment6(xs, mf, i) ==
    IF i > Len(xs) THEN 0
    ELSE SegMoment6(xs[i - 1], xs[i], mf[xs[i - 1]], mf[xs[i]])
         + SumMoment6(xs, mf, i + 1)

RECURSIVE SumArea2(_, _, _)
SumArea2(xs, mf, i) ==
    IF i > Len(xs) THEN 0
    ELSE SegArea2(xs[i - 1], xs[i], mf[xs[i - 1]], mf[xs[i]])
         + SumArea2(xs, mf, i + 1)

\* centroid of the aggregated set: sum(moment * area) / sum(area)
centroid(xs, mf) == Ratio(SumMoment6(xs, mf, 2), 3 * Sub * SumArea2(xs, mf, 2))

\* faulty variant: no check for a zero aggregated set, 0 / eps = 0 is returned
DefuzzUnchecked(cut) ==
    LET mf == output_mf(cut)
    IN [kind |-> "ok",
        value |-> IF SumMf(mf, DOMAIN mf) = 0 THEN <<0, 1>>
                  ELSE centroid(SortSet(DOMAIN mf), mf)]

\* CrispValueCalculator.defuzz with defuzzify_method 'centroid': a zero
\* aggregated set raises ValueError, otherwise the crisp value
Defuzz(cut) ==
    LET mf == output_mf(cut)
    IN IF SumMf(mf, DOMAIN mf) = 0
       THEN [kind |-> "error"]
       ELSE [kind |-> "ok", value |-> centroid(SortSet(DOMAIN mf), mf)]

\* the whole of compute() on novel inputs
Evaluate(in) == Defuzz(Cuts(FireAll(Fuzzify(in))))

(***************************************************************************)
(* One evaluation, stage by stage                                          *)
(***************************************************************************)
\* crisp inputs of the stage-by-stage evaluation: soil moisture in steps of
\* five, every temperature and every weather category
EvalInputs ==
    [soil_moisture : {5 * k : k \in 0 .. 20},
     temperature : temperature_universe,
     weather : weather_universe]

AppInit ==
    /\ water_supply_input_value = None
    /\ result_label = Label("Recommended Water Supply: N/A", 0)
    /\ canvas_marker = None
    /\ sim_input = NoInputs
    /\ sim_output = None
    /\ sim_cache = <<>>
    /\ last = NoCall
    /\ remembered = <<>>
    /\ last_success = None

ConcIdle ==
    /\ c_pc = <<>>
    /\ c_in = <<>>
    /\ c_res = <<>>
    /\ c_overlap = <<>>

EvalIdle ==
    /\ ev_in = None
    /\ ev_pc = "idle"
    /\ ev_deg = None
    /\ ev_fire = None
    /\ ev_cut = None
    /\ ev_out = None

InitEval ==
    /\ ev_in \in EvalInputs
    /\ ev_pc = "input"
    /\ ev_deg = None
    /\ ev_fire = None
    /\ ev_cut = None
    /\ ev_out = None
    /\ AppInit
    /\ ConcIdle

\* CrispValueCalculator(antecedent).fuzz for every antecedent
StepFuzzify ==
    /\ ev_pc = "input"
    /\ ev_deg' = Fuzzify(ev_in)
    /\ ev_pc' = "fuzzified"
    /\ UNCHANGED <<ev_in, ev_fire, ev_cut, ev_out>>
    /\ UNCHANGED <<appVars, simVars, histVars, concVars>>

\* compute_rule for every rule: firing strength, activation, accumulation
StepRules ==
    /\ ev_pc = "fuzzified"
    /\ ev_fire' = FireAll(ev_deg)
    /\ ev_cut' = Cuts(FireAll(ev_deg))
    /\ ev_pc' = "rules"
    /\ UNCHANGED <<ev_in, ev_deg, ev_out>>
    /\ UNCHANGED <<appVars, simVars, histVars, concVars>>

\* CrispValueCalculator(consequent).defuzz
StepDefuzz ==
    /\ ev_pc = "rules"
    /\ ev_out' = Defuzz(ev_cut)
    /\ ev_pc' = "done"
    /\ UNCHANGED <<ev_in, ev_deg, ev_fire, ev_cut>>
    /\ UNCHANGED <<appVars, simVars, histVars, concVars>>

NextEval == StepFuzzify \/ StepRules \/ StepDefuzz

SpecEval == InitEval /\ [][NextEval]_vars

(***************************************************************************)
(* IrrigationApp.run_simulation (lines 163-209) on the shared              *)
(* irrigation_sim (line 74)                                                *)
(***************************************************************************)
Digits == <<"0", "1", "2", "3", "4", "5", "6", "7", "8", "9">>
IsDigit(c) == \E i \in DOMAIN Digits : Digits[i] = c
DigitValue(c) == (CHOOSE i \in DOMAIN Digits : Digits[i] = c) - 1

RECURSIVE DecValue(_)
DecValue(ds) ==
    IF ds = <<>> THEN 0
    ELSE 10 * DecValue(SubSeq(ds, 1, Len(ds) - 1)) + DigitValue(ds[Len(ds)])

\* float(text) on a text of characters: an optional sign, then decimal
\* digits or "nan"; anything else raises ValueError
float(text) ==
    LET signed == text # <<>> /\ text[1] \in {"-", "+"}
        body == IF signed THEN Tail(text) ELSE text
        sign == IF signed /\ text[1] = "-" THEN 0 - 1 ELSE 1
    IN IF body = <<"n", "a", "n">> THEN [kind |-> "nan", value |-> 0]
       ELSE IF body # <<>> /\ \A i \in DOMAIN body : IsDigit(body[i])
            THEN [kind |-> "num", value |-> sign * DecValue(body)]
       ELSE [kind |-> "ValueError", value |-> 0]

\* lo <= v <= hi on a float: every comparison with nan is False
Between(lo, v, hi) == v.kind = "num" /\ lo <= v.value /\ v.value <= hi

\* faulty variant: the range check written as not (v < 0 or v > 100), which nan passes
soil_moisture_ok_nan(v) == ~ (v.kind = "num" /\ (v.value < 0 \/ v.value > 100))

\* line 173
soil_moisture_ok(v) == Between(0, v, 100)
\* line 177
temperature_ok(v) == Between(0, v, 40)
\* line 181
weather_ok(w) == w \in {0, 1, 2}

\* what the user can have typed and selected when the button is clicked
SoilTexts ==
    { <<>>, <<"n", "a", "n">>, <<"-", "5">>, <<"1", "0", "1">>,
      <<"0">>, <<"5", "0">> }
TemperatureTexts == { <<"x">>, <<"4", "1">>, <<"2", "5">> }
\* QComboBox.currentIndex(): -1 when no item is current
WeatherIndexes == (0 - 1) .. 2

\* the validated triples those texts and selections amount to
AppInputs ==
    { [soil_moisture |-> float(st).value, temperature |-> float(tt).value,
       weather |-> w] :
        st \in {x \in SoilTexts : soil_moisture_ok(float(x))},
        tt \in {x \in TemperatureTexts : temperature_ok(float(x))},
        w \in {x \in WeatherIndexes : weather_ok(x)} }

\* the engine's result on each of them, evaluated once
Evaluated == [in \in AppInputs |-> Evaluate(in)]

\* faulty variant: results filed under the soil moisture alone
unique_id_soil(input) == input.soil_moisture

\* faulty variant: results filed without the weather
unique_id_no_weather(input) == <<input.soil_moisture, input.temperature>>

\* the key under which the simulation files a computed result: its current
\* inputs
unique_id(input) == input

\* irrigation_sim.compute() (line 191) on the stored inputs.  A result
\* computed before is looked up; a novel one is evaluated and filed.  flush
\* says that this run is the one that reaches flush_after_run, after which
\* the simulation forgets its filed results and inputs.
compute(input, output, cache, flush) ==
    LET key == unique_id(input)
        in == [v \in DOMAIN input |-> The(input[v])]
        r == Evaluated[in]
    IN IF \E v \in DOMAIN input : input[v] = None
       THEN [raised |-> TRUE, input |-> input, output |-> output, cache |-> cache]
       ELSE IF key \in DOMAIN cache
       THEN [raised |-> FALSE, input |-> input, output |-> cache[key], cache |-> cache]
       ELSE IF r.kind = "error"
       THEN [raised |-> TRUE, input |-> input, output |-> output, cache |-> cache]
       ELSE IF flush
       THEN [raised |-> FALSE, input |-> NoInputs, output |-> r.value, cache |-> <<>>]
       ELSE [raised |-> FALSE, input |-> input, output |-> r.value,
             cache |-> cache @@ (key :> r.value)]

\* the crisp value of an evaluation's outcome, None when it raised
CrispOf(r) == IF r.kind = "ok" THEN r.value ELSE None

\* f"{v:.2f}": the value in hundredths, rounded to nearest
Hundredths(v) == (200 * v[1] + v[2]) \div (2 * v[2])

\* faulty variant: the marker is never stored
marker_never_set(output, old) == old

\* lines 193-195: the marker of the Water Supply plot after compute returned
marker_after(output, old) == IF output # None THEN output ELSE old

\* invalid raw input as the requirements describe it, from the texts themselves
RawInvalid(soil_text, temperature_text, weather_index) ==
    \/ float(soil_text).kind = "ValueError"
    \/ float(temperature_text).kind = "ValueError"
    \/ ~ (float(soil_text).kind = "num" /\ float(soil_text).value \in soil_moisture_universe)
    \/ ~ (float(temperature_text).kind = "num"
          /\ float(temperature_text).value \in temperature_universe)
    \/ weather_index \notin weather_universe

\* show_error and return (lines 174-176, 178-180, 182-184): no update_plots
Rejected(dialog, invalid) ==
    /\ result_label' = ErrorLabel
    /\ last' = Call("rejected", dialog, FALSE, None, [kind |-> "none"], TRUE, invalid,
                    FALSE, last.kind)
    /\ UNCHANGED <<water_supply_input_value, canvas_marker, simVars>>
    /\ UNCHANGED <<remembered, last_success>>

\* lines 186-209 once the raw input is validated: the three inputs are
\* stored, compute() runs, the result is shown and the plots are redrawn
evaluate_and_show(input, invalid, flush, remember) ==
    LET c == compute(input, sim_output, sim_cache, flush)
        in == [v \in DOMAIN input |-> The(input[v])]
        outcome == IF c.raised THEN [kind |-> "error"]
                   ELSE [kind |-> "ok", value |-> c.output]
        repeat == remembered # <<>> /\ remembered[1].in = in
        call(kind, dialog) ==
            Call(kind, dialog, TRUE, in, outcome, c.input = sim_input, invalid,
                 repeat, last.kind)
    IN
    /\ sim_input' = c.input
    /\ sim_output' = c.output
    /\ sim_cache' = c.cache
    /\ remembered' =
          IF remembered = <<>> /\ remember
          THEN << [in |-> in, outcome |-> outcome] >>
          ELSE remembered
    /\ IF c.raised
       THEN \* compute's ValueError lands in lines 202-204
            /\ result_label' = ErrorLabel
            /\ UNCHANGED water_supply_input_value
            /\ canvas_marker' = water_supply_input_value
            /\ last' = call("compute_error", "numeric")
            /\ UNCHANGED last_success
       ELSE IF c.output # None
       THEN \* lines 193-197
            /\ water_supply_input_value' =
                  marker_after(c.output, water_supply_input_value)
            /\ result_label' = Label("Recommended Water Supply", Hundredths(c.output))
            /\ canvas_marker' = water_supply_input_value'
            /\ last' = call("ok", "none")
            /\ last_success' = CrispOf(Evaluated[in])
       ELSE \* lines 198-200
            /\ result_label' = Label("Error: Water supply not computed.", 0)
            /\ UNCHANGED water_supply_input_value
            /\ canvas_marker' = water_supply_input_value
            /\ last' = call("not_computed", "none")
            /\ UNCHANGED last_success

run_simulation(soil_text, temperature_text, weather_index) ==
    LET soil_moisture_value == float(soil_text)
        temperature_value == float(temperature_text)
        weather_value == weather_index
        invalid == RawInvalid(soil_text, temperature_text, weather_index)
        input == [soil_moisture |-> Some(soil_moisture_value.value),
                  temperature |-> Some(temperature_value.value),
                  weather |-> Some(weather_value)]
    IN
    /\ UNCHANGED <<evalVars, concVars>>
    /\ IF soil_moisture_value.kind = "ValueError"
          \/ temperature_value.kind = "ValueError"
       THEN \* except ValueError (lines 202-204), then update_plots
            /\ result_label' = ErrorLabel
            /\ canvas_marker' = water_supply_input_value
            /\ last' = Call("not_numeric", "numeric", FALSE, None, [kind |-> "none"],
                            TRUE, invalid, FALSE, last.kind)
            /\ UNCHANGED <<water_supply_input_value, simVars>>
            /\ UNCHANGED <<remembered, last_success>>
       ELSE IF ~ soil_moisture_ok(soil_moisture_value)
       THEN Rejected("soil_moisture", invalid)
       ELSE IF ~ temperature_ok(temperature_value)
       THEN Rejected("temperature", invalid)
       ELSE IF ~ weather_ok(weather_value)
       THEN Rejected("weather", invalid)
       ELSE \E flush \in BOOLEAN, remember \in BOOLEAN :
                evaluate_and_show(input, invalid, flush, remember)

Init ==
    /\ AppInit
    /\ EvalIdle
    /\ ConcIdle

Next ==
    \E soil_text \in SoilTexts, temperature_text \in TemperatureTexts,
       weather_index \in WeatherIndexes :
        run_simulation(soil_text, temperature_text, weather_index)

Spec == Init /\ [][Next]_vars


(***************************************************************************)
(* Two evaluations on the shared irrigation_sim, interleaved at the steps  *)
(* of lines 186, 187, 188, 191 and 194                                     *)
(***************************************************************************)
\* how many evaluations run at once
MaxEvaluations == 2
Evaluations == 1 .. MaxEvaluations

InitConc ==
    /\ AppInit
    /\ EvalIdle
    /\ c_in \in {f \in [Evaluations -> AppInputs] :
                  \A p, q \in Evaluations : p # q => f[p] # f[q]}
    /\ c_pc = [p \in Evaluations |-> "set_soil_moisture"]
    /\ c_res = [p \in Evaluations |-> [kind |-> "none"]]
    /\ c_overlap = [p \in Evaluations |-> FALSE]

\* a step of p falls between the first and the last step of every other
\* evaluation that has begun and not finished
Overlaps(p) ==
    [q \in Evaluations |->
        c_overlap[q] \/ (q # p /\ c_pc[q] \notin {"set_soil_moisture", "done"})]

SetInput(p, at, var, then) ==
    /\ c_pc[p] = at
    /\ sim_input' = [sim_input EXCEPT ![var] = Some(c_in[p][var])]
    /\ c_pc' = [c_pc EXCEPT ![p] = then]
    /\ c_overlap' = Overlaps(p)
    /\ UNCHANGED <<sim_output, sim_cache, c_in, c_res>>
    /\ UNCHANGED <<evalVars, appVars, histVars>>

\* line 186
SetSoilMoisture(p) == SetInput(p, "set_soil_moisture", "soil_moisture", "set_temperature")
\* line 187
SetTemperature(p) == SetInput(p, "set_temperature", "temperature", "set_weather")
\* line 188
SetWeather(p) == SetInput(p, "set_weather", "weather", "compute")

\* line 191; an exception ends the evaluation with the error outcome
Compute(p) ==
    /\ c_pc[p] = "compute"
    /\ \E flush \in BOOLEAN :
         LET c == compute(sim_input, sim_output, sim_cache, flush)
         IN /\ sim_input' = c.input
            /\ sim_output' = c.output
            /\ sim_cache' = c.cache
            /\ c_pc' = [c_pc EXCEPT ![p] = IF c.raised THEN "done" ELSE "read"]
            /\ c_res' = [c_res EXCEPT ![p] =
                            IF c.raised THEN [kind |-> "error"] ELSE @]
    /\ c_overlap' = Overlaps(p)
    /\ UNCHANGED c_in
    /\ UNCHANGED <<evalVars, appVars, histVars>>

\* lines 193-194
ReadOutput(p) ==
    /\ c_pc[p] = "read"
    /\ c_res' = [c_res EXCEPT ![p] = [kind |-> "ok", value |-> sim_output]]
    /\ c_pc' = [c_pc EXCEPT ![p] = "done"]
    /\ c_overlap' = Overlaps(p)
    /\ UNCHANGED <<simVars, c_in>>
    /\ UNCHANGED <<evalVars, appVars, histVars>>

NextConc ==
    \E p \in Evaluations :
        \/ SetSoilMoisture(p)
        \/ SetTemperature(p)
        \/ SetWeather(p)
        \/ Compute(p)
        \/ ReadOutput(p)

SpecConc == InitConc /\ [][NextConc]_vars


(***************************************************************************)
(* Properties                                                              *)
(***************************************************************************)
In(s, t, w) == [soil_moisture |-> s, temperature |-> t, weather |-> w]

EvalDone(in) == ev_pc = "done" /\ ev_in = in

\* k/n of the degree 1.0
Degree(k, n) == ExactDiv(k * One, n)

\* C1: evaluating soil_moisture=0, temperature=0, weather=0 fires at least
\* one rule, aggregates a set that is not identically zero and returns a
\* crisp value instead of the no-applicable-rule outcome.
C1_ZeroInputYieldsValue ==
    EvalDone(In(0, 0, 0)) =>
        /\ \E i \in RuleIds : ev_fire[i] > 0
        /\ \E t \in OutTerms : The(ev_cut[t]) > 0
        /\ ev_out.kind = "ok"

\* C2 as stated: at (10, 35, 2) rule1, rule5 and rule6 fire and the crisp
\* value lies in the "high" band, between 50 and 60.
C2_HighBand ==
    EvalDone(In(10, 35, 2)) =>
        /\ ev_fire[1] > 0 /\ ev_fire[5] > 0 /\ ev_fire[6] > 0
        /\ ev_out.kind = "ok"
        /\ RatLe(50, ev_out.value) /\ RatGe(60, ev_out.value)

\* C2 amended: at (10, 35, 2) rule1 and rule5 fire at 0.5 and rule6 at 0.8,
\* each the minimum of its term degrees, no other rule fires, and the crisp
\* value lies in the "moderate" band, between 35 and 45.
C2_ModerateBand ==
    EvalDone(In(10, 35, 2)) =>
        /\ ev_fire[1] = Degree(1, 2) /\ ev_fire[5] = Degree(1, 2)
        /\ ev_fire[6] = Degree(4, 5)
        /\ \A i \in RuleIds \ {1, 5, 6} : ev_fire[i] = 0
        /\ ev_out.kind = "ok"
        /\ RatLe(35, ev_out.value) /\ RatGe(45, ev_out.value)

C2_Witness == EvalDone(In(10, 35, 2)) /\ ev_out.kind = "ok"

\* C3 as stated: at soil_moisture=80, weather=0 and any temperature, rule2
\* fires at full strength 1 and the crisp value lies between 0 and 5.
C3_FullNoneBand ==
    (ev_pc = "done" /\ ev_in.soil_moisture = 80 /\ ev_in.weather = 0) =>
        /\ ev_fire[2] = One
        /\ ev_out.kind = "ok"
        /\ RatLe(0, ev_out.value) /\ RatGe(5, ev_out.value)

\* C3 amended: at soil_moisture=80, weather=0 and any temperature, rule2
\* fires at min(wet(80), rainy(0)) = 0.6 and the crisp value lies between
\* 5 and 6.
C3_PartialNoneBand ==
    (ev_pc = "done" /\ ev_in.soil_moisture = 80 /\ ev_in.weather = 0) =>
        /\ ev_fire[2] = Min(ev_deg.soil_moisture.wet, ev_deg.weather.rainy)
        /\ ev_fire[2] = Degree(3, 5)
        /\ ev_out.kind = "ok"
        /\ RatLe(5, ev_out.value) /\ RatGe(6, ev_out.value)

C3_Witness ==
    /\ ev_pc = "done" /\ ev_in.soil_moisture = 80 /\ ev_in.weather = 0
    /\ ev_in.temperature = 40 /\ ev_out.kind = "ok"

\* C4: at (50, 25, 2) rule4 has the largest firing strength of the 13 rules
\* and the crisp value lies in the "moderate" band, between 35 and 45.
C4_Rule4Dominant ==
    EvalDone(In(50, 25, 2)) =>
        /\ ev_fire[4] > 0
        /\ \A i \in RuleIds : ev_fire[i] <= ev_fire[4]
        /\ ev_out.kind = "ok"
        /\ RatLe(35, ev_out.value) /\ RatGe(45, ev_out.value)

C4_Witness == EvalDone(In(50, 25, 2)) /\ ev_fire[4] = One /\ ev_out.kind = "ok"

\* the aggregated set is the term 'low' = (10, 20, 30) at full strength and
\* nothing else
OnlyLowFully ==
    /\ ev_pc = "done"
    /\ The(ev_cut.low) = One
    /\ \A t \in OutTerms \ {"low"} : The(ev_cut[t]) = 0

\* C5: when the aggregated set is the one symmetric triangular term 'low'
\* = (10, 20, 30) at firing strength 1 and nothing else, the centroid over
\* 0..60 is the term's peak, 20.
C5_SymmetricCentroidIsPeak ==
    OnlyLowFully => ev_out = [kind |-> "ok", value |-> <<20, 1>>]

C5_Witness == OnlyLowFully /\ ev_fire[3] = One /\ ev_out.kind = "ok"

\* C6: on invalid raw input (a text that is not numeric, soil moisture
\* outside [0,100], temperature outside [0,40], weather not 0/1/2) the call
\* shows an error, never invokes compute and leaves the stored inputs of
\* irrigation_sim as they were.
C6_InvalidInputRefused ==
    last.raw_invalid =>
        /\ last.dialog # "none"
        /\ result_label = ErrorLabel
        /\ ~ last.computed
        /\ last.inputs_kept

C6_Witness ==
    /\ last.raw_invalid
    /\ last.kind = "rejected"
    /\ sim_input # NoInputs

AllZero(in) == \A i \in RuleIds : Firing(Fuzzify(in), i) = 0

\* C7: a call on a validated triple for which all 13 rules have firing
\* strength 0 ends with an error shown: it produces and displays no crisp
\* value and the handler completes.
C7_NoRuleIsReportedError ==
    (last.in # None /\ AllZero(last.in)) =>
        /\ last.kind = "compute_error"
        /\ last.outcome = [kind |-> "error"]
        /\ last.dialog # "none"
        /\ result_label = ErrorLabel

C7_Witness ==
    /\ last.in # None /\ AllZero(last.in)
    /\ last.kind = "compute_error"
    /\ water_supply_input_value # None

\* C8: a call on a validated triple yields the outcome that any earlier call
\* on the same triple yielded, whatever calls came before or in between.
C8_SameInputsSameOutcome ==
    last.repeat => last.outcome = remembered[1].outcome

C8_Witness ==
    /\ last.repeat
    /\ last.kind = "ok"
    /\ last.prev = "compute_error"

EvaluationDone(p) == c_pc[p] = "done"

C10_MarkerIsLastSuccess == water_supply_input_value = last_success

C10_Witness ==
    /\ water_supply_input_value # None
    /\ last.kind \in {"rejected", "not_numeric", "compute_error"}
    /\ result_label = ErrorLabel

====
